---------------------------- MODULE Spec2Model ----------------------------
(***************************************************************************)
(* Contrato de Sangue: the character record of ContractoActor, its         *)
(* derived-data pass (prepareDerivedData) and its skill roll (rollSkill,   *)
(* #executeSkillRoll).                                                     *)
(*                                                                         *)
(* The record `system` is the actor's in-memory this.system; `flags` is    *)
(* the persisted flag scope 'contrato-de-sangue'.  Document updates        *)
(* (this.update, this.setFlag) are asynchronous: a request is queued in    *)
(* `pending` and takes effect when the host applies it, in request order;  *)
(* the host then runs prepareDerivedData again ("chamado automaticamente   *)
(* ... sempre que o ator ou seus itens são atualizados").                  *)
(*                                                                         *)
(* Numbers are integers.  A value of the resource pool's `current` field   *)
(* is a tagged record so that typeof and the comparisons of the source     *)
(* can be computed on an absent value, a string and NaN.  Timestamps of    *)
(* history entries are left out.                                           *)
(*                                                                         *)
(* The collaborators may fail: the evaluation of a die, the chat, the      *)
(* host's answer to an update request and the api of Simple Calendar.      *)
(***************************************************************************)
EXTENDS Integers, Sequences, FiniteSets, TLC

VARIABLES
    system,       \* this.system: attributes, reservaDados, mortalidade
    skills,       \* this.system.skills: rating per skill key, or absent
    flags,        \* persisted flags: lastMortalityLevel, history
    pending,      \* update requests sent to the host and not yet applied
    rolls,        \* per rollSkill call: its position and its locals
    scActive,     \* Simple Calendar is installed, active and has an api
    scApi,        \* how the api of Simple Calendar answers: "ok" or what throws
    transitions,  \* number of times the derived hunt frequency changed value
    last          \* what the last operation was and what it reported

vars == <<system, skills, flags, pending, rolls, scActive, scApi, transitions, last>>

-----------------------------------------------------------------------------
(* Bounds *)

MaxAttr == 13
MaxCurrent == 14
MaxRolls == 2
MaxHistory == 2
MaxTransitions == 4
MaxPending == 3

-----------------------------------------------------------------------------
(* JavaScript values *)

Num(n) == [k |-> "int", n |-> n]
NaN == [k |-> "nan", n |-> 0]
Undefined == [k |-> "undef", n |-> 0]
Str == [k |-> "str", n |-> 0]

\* typeof v === 'number'
TypeofNumber(v) == v.k \in {"int", "nan"}

\* v > m for a value v whose typeof is number: false for NaN
GreaterThan(v, m) == v.k = "int" /\ v.n > m

\* v <= m: false for NaN
AtMost(v, m) == v.k = "int" /\ v.n <= m

\* Number(v ?? d) for v an integer or absent
NumberOr(v, d) == IF v.k = "undef" THEN d ELSE v.n

MathMax(a, b) == IF a >= b THEN a ELSE b

MathMin(a, b) == IF a <= b THEN a ELSE b

-----------------------------------------------------------------------------
(* Update requests: this.update and this.setFlag *)

\* this.update({system.attributes...}); an absent field is left as it is.
\* roll is the call that awaits the request, 0 when nobody awaits it.
UpdateAttributes(humanidade, bestialidade, mortalidade, roll) ==
    [key |-> "attributes", level |-> "", history |-> << >>, roll |-> roll,
     humanidade |-> humanidade, bestialidade |-> bestialidade,
     mortalidade |-> mortalidade]

\* this.setFlag('contrato-de-sangue', 'lastMortalityLevel', level)
SetFlagLevel(level) ==
    [key |-> "lastMortalityLevel", level |-> level, history |-> << >>, roll |-> 0,
     humanidade |-> Undefined, bestialidade |-> Undefined, mortalidade |-> Undefined]

\* this.setFlag('contrato-de-sangue', 'history', history)
SetFlagHistory(history, roll) ==
    [key |-> "history", level |-> "", history |-> history, roll |-> roll,
     humanidade |-> Undefined, bestialidade |-> Undefined, mortalidade |-> Undefined]

-----------------------------------------------------------------------------
(* prepareDerivedData *)

\* Penalty with the lower edge of each tier left out
PenaltyStrictEdges(mort) ==
    IF mort > 3 /\ mort <= 5 THEN 1
    ELSE IF mort > 6 /\ mort <= 8 THEN 2
    ELSE IF mort > 9 /\ mort <= 11 THEN 3
    ELSE IF mort > 12 THEN 4
    ELSE 0

Penalty(mort) ==
    IF mort >= 3 /\ mort <= 5 THEN 1
    ELSE IF mort >= 6 /\ mort <= 8 THEN 2
    ELSE IF mort >= 9 /\ mort <= 11 THEN 3
    ELSE IF mort >= 12 THEN 4
    ELSE 0

HuntFrequency(mort) ==
    IF mort >= 3 /\ mort <= 5 THEN "weekly"
    ELSE IF mort >= 6 /\ mort <= 8 THEN "twice-weekly"
    ELSE IF mort >= 9 /\ mort <= 11 THEN "daily"
    ELSE IF mort >= 12 THEN "constant"
    ELSE "none"

\* Lines 29-34: bestialidade after the sum has been enforced
EnforceSum(humanidade, bestialidade) ==
    IF humanidade + bestialidade # 12
    THEN MathMax(0, 12 - humanidade)
    ELSE bestialidade

\* ClampCurrent that leaves every number as it is
ClampCurrentKeep(current, max) ==
    IF ~TypeofNumber(current) THEN Num(max) ELSE current

\* ClampCurrent that refills the pool when max is recomputed
ClampCurrentRefill(current, max) == Num(max)

\* Lines 40-42: reservaDados.current after the clamp against max
ClampCurrent(current, max) ==
    IF ~TypeofNumber(current) \/ GreaterThan(current, max)
    THEN Num(max)
    ELSE current

\* Line 68: the last-seen comparison
Crossed(lastMortalityLevel, huntFrequency) ==
    lastMortalityLevel # huntFrequency

\* #scheduleHuntEvent, lines 106-112
DeltaDays(frequency) ==
    CASE frequency = "weekly" -> 7
      [] frequency = "twice-weekly" -> 3
      [] frequency = "daily" -> 1
      [] OTHER -> 0

\* #scheduleHuntEvent, line 104: api.currentDate() is called outside the try
\* block, so what it throws leaves #scheduleHuntEvent and prepareDerivedData
ScheduleThrows(active, api) == active /\ api = "currentDate"

\* #scheduleHuntEvent: the day offset handed to api.addEvent, or -1 when
\* Simple Calendar is absent or inactive, or api.addEvent throws (caught at
\* lines 119-123), and nothing is scheduled
ScheduleHuntEvent(frequency, active, api) ==
    IF ~active \/ api # "ok" THEN -1 ELSE DeltaDays(frequency)

MortalityEntry(huntFrequency, mort) ==
    [type |-> "mortalidade", level |-> huntFrequency, mortalidade |-> mort,
     skill |-> "", total |-> Num(0), humanidade |-> 0, bestialidade |-> 0]

\* The whole pass over raw attributes (integers or absent), the raw current
\* value and the persisted flags.  The result holds the record after the
\* pass, the update requests issued (setFlag), whether #scheduleHuntEvent
\* was called, the offset given to the calendar and whether the pass ended
\* by throwing: the marker has then been sent and the history entry has not.
PrepareDerivedData(humanidade, bestialidade, mortalidade, current, fl, active, api) ==
    LET h == NumberOr(humanidade, 6)
        b == EnforceSum(h, NumberOr(bestialidade, 6))
        mort == NumberOr(mortalidade, 0)
        max == b + 1
        hunt == HuntFrequency(mort)
        crossed == Crossed(fl.lastMortalityLevel, hunt)
        threw == crossed /\ hunt # "none" /\ ScheduleThrows(active, api)
    IN  [system |-> [humanidade |-> h, bestialidade |-> b, mortalidade |-> mort,
                     current |-> ClampCurrent(current, max), max |-> max,
                     penalty |-> Penalty(mort), hunt |-> hunt],
         requests |-> IF ~crossed THEN << >>
                      ELSE IF threw THEN << SetFlagLevel(hunt) >>
                      ELSE << SetFlagLevel(hunt),
                              SetFlagHistory(Append(fl.history, MortalityEntry(hunt, mort)), 0) >>,
         hunted |-> crossed /\ hunt # "none",
         event |-> IF crossed /\ hunt # "none"
                   THEN ScheduleHuntEvent(hunt, active, api) ELSE -1,
         threw |-> threw]

-----------------------------------------------------------------------------
(* Configuration: CONFIG.Contrato *)

ConfigSkills ==
    {"atletismo", "briga", "conducao", "furtividade", "sobrevivencia",
     "computadores", "investigacao", "medicina", "ocultismo", "ciencias",
     "empatia", "expressao", "intimidacao", "persuasao", "subterfugio",
     "armasBrancas", "armasDeFogo", "defesa"}

\* The values of CONFIG.Contrato.modifiers, in list order
ConfigModifiers == <<3, 1, 0, -1, -3, -2, -2, -1>>

ModifierValues == {ConfigModifiers[i] : i \in DOMAIN ConfigModifiers}

\* CONFIG.Contrato.skills and this.system.skills are plain objects: a lookup
\* by key also finds what every object inherits from Object.prototype
ObjectPrototypeKeys ==
    {"constructor", "toString", "toLocaleString", "valueOf", "hasOwnProperty",
     "isPrototypeOf", "propertyIsEnumerable", "__proto__"}

-----------------------------------------------------------------------------
(* rollSkill and #executeSkillRoll *)

Rolls == 1..MaxRolls

IdleRoll ==
    [pc |-> "idle", skill |-> "", umbral |-> FALSE, mod |-> 0, skillVal |-> Num(0),
     human |-> 0, bestia |-> 0, before |-> Num(0), d6 |-> 0, d6Value |-> 0,
     d12 |-> 0, total |-> Num(0), published |-> FALSE]

\* Lines 136-137: !CONFIG.Contrato.skills[skillKey]
UnknownSkill(skillKey) ==
    skillKey \notin ConfigSkills /\ skillKey \notin ObjectPrototypeKeys

\* NoResource that lets an empty pool through
NoResourceBelowZero(current) == AtMost(current, -1)

\* Line 144: current <= 0
NoResource(current) == AtMost(current, 0)

\* Line 203: Number(this.system.skills[skillKey] || 0); an inherited
\* property is a function or an object, whose Number is NaN
SkillVal(sk, skillKey) ==
    IF skillKey \in DOMAIN sk /\ sk[skillKey].k = "int" THEN sk[skillKey]
    ELSE IF skillKey \in ObjectPrototypeKeys THEN NaN
    ELSE Num(0)

\* Decrement that takes two points
DecrementTwice(current) ==
    IF current.k = "int" THEN Num(MathMax(0, current.n - 2)) ELSE NaN

\* Line 208: Math.max(0, reserva.current - 1)
Decrement(current) ==
    IF current.k = "int" THEN Num(MathMax(0, current.n - 1)) ELSE NaN

\* SpentDie that rounds the half down
SpentDieFloor(umbral, d6) == IF umbral THEN d6 ELSE d6 \div 2

\* Lines 212-216: the contribution of the spent die
SpentDie(umbral, d6) == IF umbral THEN d6 ELSE (d6 + 1) \div 2

\* NewBestialidade without the cap
NewBestialidadeUncapped(bestia) == bestia + 1

\* Line 222
NewBestialidade(bestia) == MathMin(11, bestia + 1)

\* Line 223
NewHumanidade(newBestialidade) == MathMax(0, 12 - newBestialidade)

\* Line 229
Total(d12, skillVal, d6Value, situationalMod) ==
    IF skillVal.k = "int"
    THEN Num(d12 + skillVal.n + d6Value + situationalMod)
    ELSE NaN

\* Lines 245-253
RollEntry(skillKey, total, human, bestia, mort) ==
    [type |-> "roll", level |-> "", mortalidade |-> mort,
     skill |-> skillKey, total |-> total, humanidade |-> human, bestialidade |-> bestia]

Report(op, roll, warn, hunted, event) ==
    [op |-> op, roll |-> roll, warn |-> warn, hunted |-> hunted, event |-> event]

\* rollSkill, lines 135-191, up to the rendering of the dialog
RollSkill(r, skillKey) ==
    /\ rolls[r].pc \in {"idle", "done", "closed"}
    /\ Len(flags.history) < MaxHistory
    /\ IF UnknownSkill(skillKey)
       THEN /\ rolls' = [rolls EXCEPT ![r] = IdleRoll]
            /\ last' = Report("rollSkill", r, "UnknownSkill", FALSE, -1)
       ELSE IF NoResource(system.current)
       THEN /\ rolls' = [rolls EXCEPT ![r] = IdleRoll]
            /\ last' = Report("rollSkill", r, "NoResourceAvailable", FALSE, -1)
       ELSE /\ rolls' = [rolls EXCEPT ![r] = [IdleRoll EXCEPT !.pc = "dialog", !.skill = skillKey]]
            /\ last' = Report("rollSkill", r, "", FALSE, -1)
    /\ UNCHANGED <<system, skills, flags, pending, scActive, scApi, transitions>>

\* The dialog is closed without a button: no callback runs and the promise of
\* rollSkill is never resolved
CloseDialog(r) ==
    /\ rolls[r].pc = "dialog"
    /\ rolls' = [rolls EXCEPT ![r].pc = "closed"]
    /\ last' = Report("close", r, "", FALSE, -1)
    /\ UNCHANGED <<system, skills, flags, pending, scActive, scApi, transitions>>

\* A button callback (lines 166-180) and #executeSkillRoll up to its first
\* await, lines 203-211
ExecuteSkillRoll(r, umbral, situationalMod) ==
    /\ rolls[r].pc = "dialog"
    /\ rolls' = [rolls EXCEPT ![r] =
                   [@ EXCEPT !.pc = "d6", !.umbral = umbral, !.mod = situationalMod,
                             !.skillVal = SkillVal(skills, rolls[r].skill),
                             !.human = system.humanidade,
                             !.bestia = system.bestialidade,
                             !.before = system.current]]
    /\ system' = [system EXCEPT !.current = Decrement(system.current)]
    /\ last' = Report("execute", r, "", FALSE, -1)
    /\ UNCHANGED <<skills, flags, pending, scActive, scApi, transitions>>

\* The d6 has been evaluated: lines 212-225 up to the await of this.update
D6Evaluated(r, d6) ==
    /\ rolls[r].pc = "d6"
    /\ IF rolls[r].umbral
       THEN /\ Len(pending) < MaxPending
            /\ pending' = Append(pending,
                  UpdateAttributes(Num(NewHumanidade(NewBestialidade(rolls[r].bestia))),
                                   Num(NewBestialidade(rolls[r].bestia)),
                                   Undefined, r))
            /\ rolls' = [rolls EXCEPT ![r] =
                  [@ EXCEPT !.pc = "update", !.d6 = d6,
                            !.d6Value = SpentDie(TRUE, d6)]]
       ELSE /\ pending' = pending
            /\ rolls' = [rolls EXCEPT ![r] =
                  [@ EXCEPT !.pc = "d12", !.d6 = d6,
                            !.d6Value = SpentDie(FALSE, d6)]]
    /\ last' = Report("d6", r, "", FALSE, -1)
    /\ UNCHANGED <<system, skills, flags, scActive, scApi, transitions>>

\* The d12 has been evaluated: lines 229-254 up to the await of setFlag
D12Evaluated(r, d12) ==
    /\ rolls[r].pc = "d12"
    /\ Len(pending) < MaxPending
    /\ LET total == Total(d12, rolls[r].skillVal, rolls[r].d6Value, rolls[r].mod)
       IN  /\ rolls' = [rolls EXCEPT ![r] =
                  [@ EXCEPT !.pc = "flag", !.d12 = d12, !.total = total,
                            !.published = TRUE]]
           /\ pending' = Append(pending,
                  SetFlagHistory(Append(flags.history,
                                        RollEntry(rolls[r].skill, total, rolls[r].human,
                                                  rolls[r].bestia, system.mortalidade)),
                                 r))
    /\ last' = Report("d12", r, "", FALSE, -1)
    /\ UNCHANGED <<system, skills, flags, scActive, scApi, transitions>>

\* The evaluation of a die is rejected (lines 211, 228): #executeSkillRoll
\* ends there by throwing, nothing catches it and nothing is undone
DieFails(r) ==
    /\ rolls[r].pc \in {"d6", "d12"}
    /\ rolls' = [rolls EXCEPT ![r].pc = "failed"]
    /\ last' = Report("dieFails", r, "Error", FALSE, -1)
    /\ UNCHANGED <<system, skills, flags, pending, scActive, scApi, transitions>>

\* The d12 has been evaluated and the chat message cannot be made (lines
\* 237-240 throw): the total is computed, nothing is published or logged
ChatFails(r, d12) ==
    /\ rolls[r].pc = "d12"
    /\ rolls' = [rolls EXCEPT ![r] =
          [@ EXCEPT !.pc = "failed", !.d12 = d12,
                    !.total = Total(d12, rolls[r].skillVal, rolls[r].d6Value, rolls[r].mod)]]
    /\ last' = Report("chatFails", r, "Error", FALSE, -1)
    /\ UNCHANGED <<system, skills, flags, pending, scActive, scApi, transitions>>

-----------------------------------------------------------------------------
(* The host *)

\* The pass run by the host on the record: the record, the requests and the
\* count of frequency changes after it
Derive(humanidade, bestialidade, mortalidade, fl, queue, op, r) ==
    LET d == PrepareDerivedData(humanidade, bestialidade, mortalidade,
                                system.current, fl, scActive, scApi)
    IN  /\ system' = d.system
        /\ pending' = queue \o d.requests
        /\ transitions' = IF d.system.hunt # system.hunt
                          THEN transitions + 1 ELSE transitions
        /\ last' = Report(op, r, IF d.threw THEN "Error" ELSE "", d.hunted, d.event)

\* The host applies the oldest update request to the document, prepares the
\* data again and resumes the roll that awaits the request
ApplyUpdate ==
    /\ pending # << >>
    /\ LET u == Head(pending)
           fl == CASE u.key = "lastMortalityLevel" ->
                        [flags EXCEPT !.lastMortalityLevel = u.level]
                   [] u.key = "history" -> [flags EXCEPT !.history = u.history]
                   [] OTHER -> flags
       IN  /\ flags' = fl
           /\ Derive(Num(NumberOr(u.humanidade, system.humanidade)),
                     Num(NumberOr(u.bestialidade, system.bestialidade)),
                     Num(NumberOr(u.mortalidade, system.mortalidade)),
                     fl, Tail(pending), "apply", u.roll)
           /\ rolls' = IF u.roll = 0 THEN rolls
                       ELSE [rolls EXCEPT ![u.roll].pc =
                               IF u.key = "attributes" THEN "d12" ELSE "done"]
    /\ UNCHANGED <<skills, scActive, scApi>>

\* The host rejects the oldest update request: the document is left as it
\* is and the data is not prepared again.  The rejection of the history write
\* of a roll is caught (lines 254-257) and the roll returns; the rejection of
\* its attribute update (line 224) is not, and the roll ends there.  Nobody
\* awaits the writes of prepareDerivedData or of the sheet.
RejectUpdate ==
    /\ pending # << >>
    /\ Len(flags.history) < MaxHistory
    /\ LET u == Head(pending)
       IN  /\ pending' = Tail(pending)
           /\ rolls' = IF u.roll = 0 THEN rolls
                       ELSE [rolls EXCEPT ![u.roll].pc =
                               IF u.key = "attributes" THEN "failed" ELSE "done"]
           /\ last' = Report("reject", u.roll, "Error", FALSE, -1)
    /\ UNCHANGED <<system, skills, flags, scActive, scApi, transitions>>

\* The host prepares the data again for a reason of its own (an item of the
\* actor was updated)
PrepareData ==
    /\ Len(pending) < MaxPending
    /\ Derive(Num(system.humanidade), Num(system.bestialidade),
              Num(system.mortalidade), flags, pending, "prepare", 0)
    /\ UNCHANGED <<skills, flags, rolls, scActive, scApi>>

-----------------------------------------------------------------------------
(* The character sheet *)

\* Number of frequency changes so far and of sheet edits still to be applied
Budget ==
    transitions + Cardinality({i \in DOMAIN pending :
                                 pending[i].key = "attributes" /\ pending[i].roll = 0})

\* The change listener of an attribute input, lines 76-84: this.actor.update
SheetChange(attr, value) ==
    /\ Len(pending) < MaxPending
    /\ Budget < MaxTransitions
    /\ Len(flags.history) < MaxHistory
    /\ pending' = Append(pending,
          UpdateAttributes(IF attr = "humanidade" THEN Num(value) ELSE Undefined,
                           IF attr = "bestialidade" THEN Num(value) ELSE Undefined,
                           IF attr = "mortalidade" THEN Num(value) ELSE Undefined, 0))
    /\ last' = Report("change", 0, "", FALSE, -1)
    /\ UNCHANGED <<system, skills, flags, rolls, scActive, scApi, transitions>>

-----------------------------------------------------------------------------
(* Initial records *)

NoFlags == [lastMortalityLevel |-> "undefined", history |-> << >>]

\* The state after the construction of the actor from stored data: the data
\* has been prepared once
Constructed(humanidade, bestialidade, mortalidade, current, sk, active, api) ==
    LET d == PrepareDerivedData(humanidade, bestialidade, mortalidade,
                                current, NoFlags, active, api)
    IN  /\ system = d.system
        /\ skills = sk
        /\ flags = NoFlags
        /\ pending = d.requests
        /\ rolls = [r \in Rolls |-> IdleRoll]
        /\ scActive = active
        /\ scApi = api
        /\ transitions = 1
        /\ last = Report("init", 0, IF d.threw THEN "Error" ELSE "", d.hunted, d.event)

-----------------------------------------------------------------------------
(* The derived-data pass on arbitrary stored records and sheet edits *)

AttrRange == -1..MaxAttr

RawAttributes == {Undefined} \cup {Num(n) : n \in AttrRange}

RawCurrents == {Undefined, Str, NaN} \cup {Num(n) : n \in {-1, 0, 3, MaxCurrent}}

\* Values typed into the inputs of the sheet
SheetEdits == {<<"mortalidade", 0>>, <<"mortalidade", 3>>, <<"humanidade", MaxAttr>>}

NoSkills == [k \in {} |-> Undefined]

\* Stored records: every humanidade, bestialidade and current with a
\* mortalidade of the first two tiers, and every mortalidade with a default, a
\* too large humanidade and an unset or negative current
InitDeriver ==
    \E active \in BOOLEAN :
        \/ \E humanidade \in RawAttributes, bestialidade \in RawAttributes,
              mortalidade \in {Num(0), Num(3)}, current \in RawCurrents :
               Constructed(humanidade, bestialidade, mortalidade, current,
                           NoSkills, active, "ok")
        \/ \E humanidade \in {Undefined, Num(MaxAttr)}, mortalidade \in RawAttributes,
              current \in {Undefined, Num(-1)} :
               Constructed(humanidade, Undefined, mortalidade, current,
                           NoSkills, active, "ok")

NextDeriver ==
    \/ \E e \in SheetEdits : SheetChange(e[1], e[2])
    \/ ApplyUpdate
    \/ PrepareData

SpecDeriver == InitDeriver /\ [][NextDeriver]_vars

-----------------------------------------------------------------------------
(* One roll at a time, as the sheet is used by one player: a roll is started *)
(* on a settled record and no other roll is in progress                      *)

InProgress(r) == rolls[r].pc \in {"dialog", "d6", "update", "d12", "flag"}

Quiet == pending = << >> /\ \A r \in Rolls : ~InProgress(r)

\* Skill keys handed to rollSkill: configured ones, one that does not exist
\* and one that every object inherits
RollKeys == {"atletismo", "voar", "toString"}

\* The call of rollSkill that is followed
SoloRolls == {1}

SkillSheet == [k \in {"atletismo"} |-> Num(3)]

SoloD6 == {2, 5}

SoloD12 == {7}

SoloModifiers == {0, -2}

InitSolo ==
    \E humanidade \in RawAttributes, mortalidade \in {Num(0), Num(3)},
       current \in {Undefined, Num(0), Num(1), Num(2)} :
        Constructed(humanidade, Undefined, mortalidade, current, SkillSheet, TRUE, "ok")

SoloRollSkill(r, skillKey) == Quiet /\ RollSkill(r, skillKey)

NextSolo ==
    \/ \E r \in SoloRolls, skillKey \in RollKeys : SoloRollSkill(r, skillKey)
    \/ \E r \in SoloRolls : CloseDialog(r)
    \/ \E r \in SoloRolls, umbral \in BOOLEAN, situationalMod \in SoloModifiers :
          ExecuteSkillRoll(r, umbral, situationalMod)
    \/ \E r \in SoloRolls, d6 \in SoloD6 : D6Evaluated(r, d6)
    \/ \E r \in SoloRolls, d12 \in SoloD12 : D12Evaluated(r, d12)
    \/ ApplyUpdate
    \/ PrepareData

SpecSolo == InitSolo /\ [][NextSolo]_vars

-----------------------------------------------------------------------------
(* One roll at a time with every face of the dice, every modifier of the    *)
(* configured list and set and unset skill ratings                          *)

D6Faces == 1..6

D12Faces == 1..12

InitTotal ==
    \E humanidade \in {Num(6), Num(1)} :
        Constructed(humanidade, Undefined, Num(0), Num(1),
                    [k \in {"atletismo", "defesa"} |->
                        IF k = "atletismo" THEN Num(3) ELSE Num(0)], TRUE, "ok")

NextTotal ==
    \/ \E r \in SoloRolls, skillKey \in {"atletismo", "briga", "defesa"} :
          SoloRollSkill(r, skillKey)
    \/ \E r \in SoloRolls, umbral \in BOOLEAN, situationalMod \in ModifierValues :
          ExecuteSkillRoll(r, umbral, situationalMod)
    \/ \E r \in SoloRolls, d6 \in D6Faces : D6Evaluated(r, d6)
    \/ \E r \in SoloRolls, d12 \in D12Faces : D12Evaluated(r, d12)
    \/ ApplyUpdate

SpecTotal == InitTotal /\ [][NextTotal]_vars

-----------------------------------------------------------------------------
(* One roll at a time with collaborators that fail: the dice, the chat, the *)
(* host's answer to an update and the api of Simple Calendar.  The host     *)
(* answers every request and the dice are evaluated without the player;     *)
(* what the player does (a call, a button, closing the dialog) may never    *)
(* happen.                                                                  *)

\* How the api of Simple Calendar answers: it works, api.currentDate throws,
\* api.addEvent throws
ScApis == {"ok", "currentDate", "addEvent"}

InitFaults ==
    \E humanidade \in {Undefined, Num(1), Num(-1)}, mortalidade \in {Num(0), Num(3)},
       current \in {Undefined, Num(1)}, active \in BOOLEAN, api \in ScApis :
        Constructed(humanidade, Undefined, mortalidade, current, SkillSheet, active, api)

\* One call of rollSkill is followed from its start to its end
FaultsRollSkill(r, skillKey) ==
    rolls[r].pc = "idle" /\ SoloRollSkill(r, skillKey)

\* The steps of the host on the update requests
HostStep == ApplyUpdate \/ RejectUpdate

\* The steps of the dice and of the chat
DiceStep ==
    \/ \E r \in SoloRolls, d6 \in SoloD6 : D6Evaluated(r, d6)
    \/ \E r \in SoloRolls, d12 \in SoloD12 : D12Evaluated(r, d12)
    \/ \E r \in SoloRolls : DieFails(r)
    \/ \E r \in SoloRolls, d12 \in SoloD12 : ChatFails(r, d12)

NextFaults ==
    \/ \E r \in SoloRolls : FaultsRollSkill(r, "atletismo")
    \/ \E r \in SoloRolls : CloseDialog(r)
    \/ \E r \in SoloRolls, umbral \in BOOLEAN : ExecuteSkillRoll(r, umbral, 0)
    \/ DiceStep
    \/ HostStep
    \/ PrepareData

SpecFaults ==
    InitFaults /\ [][NextFaults]_vars /\ WF_vars(HostStep) /\ WF_vars(DiceStep)

-----------------------------------------------------------------------------
(* Sheet edits of the attributes while a roll is resolved: the listener of  *)
(* the sheet and the buttons of the dialog are independent of each other    *)

\* Values typed into the attribute inputs: humanidade down and up, and
\* bestialidade on its own
AttributeEdits == {<<"humanidade", 2>>, <<"humanidade", 9>>, <<"bestialidade", 3>>}

\* Stored values of reservaDados.current: absent, a string, within and above
\* the bounds
StoredCurrents == {Undefined, Str, Num(0), Num(2), Num(MaxCurrent)}

InitSheet ==
    \E humanidade \in {Undefined, Num(1), Num(9)}, current \in StoredCurrents :
        Constructed(humanidade, Undefined, Num(0), current, SkillSheet, TRUE, "ok")

NextSheet ==
    \/ \E e \in AttributeEdits : SheetChange(e[1], e[2])
    \/ \E r \in SoloRolls : RollSkill(r, "atletismo")
    \/ \E r \in SoloRolls, umbral \in BOOLEAN : ExecuteSkillRoll(r, umbral, 0)
    \/ \E r \in SoloRolls : D6Evaluated(r, 5)
    \/ \E r \in SoloRolls : D12Evaluated(r, 7)
    \/ ApplyUpdate
    \/ PrepareData

SpecSheet == InitSheet /\ [][NextSheet]_vars

-----------------------------------------------------------------------------
(* Several calls of rollSkill in progress at once: the dialogs are not      *)
(* modal and nothing keeps the player from opening a second one             *)

Init ==
    \E humanidade \in {Undefined, Num(1)}, current \in {Undefined, Num(0), Num(1)} :
        Constructed(humanidade, Undefined, Num(0), current, SkillSheet, TRUE, "ok")

Next ==
    \/ \E r \in Rolls, skillKey \in RollKeys : RollSkill(r, skillKey)
    \/ \E r \in Rolls : CloseDialog(r)
    \/ \E r \in Rolls, umbral \in BOOLEAN : ExecuteSkillRoll(r, umbral, 0)
    \/ \E r \in Rolls : D6Evaluated(r, 5)
    \/ \E r \in Rolls : D12Evaluated(r, 7)
    \/ ApplyUpdate
    \/ PrepareData

Spec == Init /\ [][Next]_vars

-----------------------------------------------------------------------------
(* Properties of the derived-data pass, under SpecDeriver *)

\* The operations that end with a pass of prepareDerivedData
AfterDeriver == last.op \in {"init", "apply", "prepare"}

\* C1: after the pass, humanidade + bestialidade = 12 and bestialidade is in
\* 0..11, whatever the attributes held before.
C1_SumIsTwelve ==
    AfterDeriver =>
        /\ system.humanidade + system.bestialidade = 12
        /\ system.bestialidade \in 0..11

\* C2: after the pass, reservaDados.current is a number in 0..max, whatever it
\* held before.
C2_CurrentInBounds ==
    AfterDeriver =>
        /\ system.current.k = "int"
        /\ system.current.n \in 0..system.max

\* C3: a pass that directly follows a pass leaves the record as it is, issues
\* no write (no history entry, no marker) and calls for no reminder.
C3_Idempotent ==
    [][(AfterDeriver /\ PrepareData) =>
          /\ system' = system
          /\ flags' = flags
          /\ pending' = pending
          /\ ~last'.hunted]_vars

MortalityEntries(history) ==
    Cardinality({i \in DOMAIN history : history[i].type = "mortalidade"})

\* C4: once every write has been applied, the history holds one threshold
\* entry per change of the derived hunt frequency.
C4_OneEntryPerTransition ==
    pending = << >> => MortalityEntries(flags.history) = transitions

\* C5: penalty and hunt frequency are the step function of mortalidade given
\* by the table 0-2, 3-5, 6-8, 9-11, 12 and more.
C5_TierTable ==
    LET mort == system.mortalidade
        tier == <<system.penalty, system.hunt>>
    IN  /\ mort \in 0..2 => tier = <<0, "none">>
        /\ mort \in 3..5 => tier = <<1, "weekly">>
        /\ mort \in 6..8 => tier = <<2, "twice-weekly">>
        /\ mort \in 9..11 => tier = <<3, "daily">>
        /\ mort >= 12 => tier = <<4, "constant">>

\* C5 witness: a sheet edit has moved mortalidade onto the edge of a tier and
\* the pass has derived the tier.
C5_Witness ==
    /\ last.op = "apply"
    /\ system.mortalidade = 3
    /\ system.hunt = "weekly"
    /\ flags.lastMortalityLevel = "none"

-----------------------------------------------------------------------------
(* Properties of rollSkill, under SpecSolo *)

\* C6: rollSkill with a key that is not a configured skill warns of an unknown
\* skill, opens no dialog and leaves the record, the flags and the requests
\* as they are.
C6_UnknownSkillRejected ==
    [][\A r \in Rolls, skillKey \in RollKeys :
          (skillKey \notin ConfigSkills /\ RollSkill(r, skillKey)) =>
              /\ last'.warn = "UnknownSkill"
              /\ rolls'[r].pc # "dialog"
              /\ system' = system
              /\ flags' = flags
              /\ pending' = pending]_vars

\* C7: rollSkill with a configured skill on an empty pool warns that no
\* resource is available, opens no dialog and changes nothing.
C7_NoResourceRejected ==
    [][\A r \in Rolls, skillKey \in RollKeys :
          (skillKey \in ConfigSkills /\ system.current = Num(0)
             /\ RollSkill(r, skillKey)) =>
              /\ last'.warn = "NoResourceAvailable"
              /\ rolls'[r].pc # "dialog"
              /\ system' = system
              /\ skills' = skills
              /\ flags' = flags
              /\ pending' = pending]_vars

\* C7 witness: a call for a configured skill has just been turned down on an
\* empty pool.
C7_Witness ==
    /\ last.op = "rollSkill"
    /\ last.warn = "NoResourceAvailable"
    /\ system.current = Num(0)

\* The roll r has returned and the record has settled: its last request has
\* been applied and the data prepared again
Settled(r) == rolls[r].pc = "done" /\ last.op = "apply" /\ last.roll = r

\* C8: a roll started with current = c >= 1 leaves current = c - 1 once it has
\* returned and the record has settled, in either mode.
C8_ConsumesOne ==
    \A r \in Rolls :
        (Settled(r) /\ rolls[r].before.k = "int" /\ rolls[r].before.n >= 1) =>
            system.current = Num(rolls[r].before.n - 1)

\* C10: an umbral roll started on a record with humanidade + bestialidade = 12
\* and bestialidade = b in 0..11 sets bestialidade to min(11, b + 1) and
\* humanidade to 12 minus that, so that the sum is still 12, and the resource
\* point is consumed also at b = 11.
C10_UmbralShift ==
    \A r \in Rolls :
        LET x == rolls[r]
            b == IF x.bestia + 1 > 11 THEN 11 ELSE x.bestia + 1
        IN  (/\ x.umbral
             /\ x.pc \in {"d12", "flag", "done"}
             /\ x.human + x.bestia = 12
             /\ x.bestia \in 0..11) =>
                /\ system.bestialidade = b
                /\ system.humanidade = 12 - b
                /\ system.humanidade + system.bestialidade = 12
                /\ (x.before.k = "int" /\ x.before.n >= 1) =>
                       system.current = Num(x.before.n - 1)

\* C10 witness: an umbral roll started at bestialidade 11 has returned; the
\* attributes are 11 and 1 and the point is gone.
C10_Witness ==
    /\ Settled(1)
    /\ rolls[1].umbral
    /\ rolls[1].bestia = 11
    /\ rolls[1].human = 1
    /\ system.bestialidade = 11
    /\ system.humanidade = 1
    /\ rolls[1].before.k = "int"
    /\ system.current = Num(rolls[1].before.n - 1)

\* The steps taken while the sacred roll r is being resolved, from the press
\* of the button to the return of #executeSkillRoll
SacredStep(r) ==
    /\ rolls[r].pc \in {"dialog", "d6", "d12", "flag"}
    /\ rolls'[r].pc \in {"d6", "d12", "flag", "done"}
    /\ ~rolls'[r].umbral

\* C11: while a sacred roll is resolved, humanidade, bestialidade,
\* mortalidade, penalty, hunt frequency and reservaDados.max stay as they
\* are; current changes once, by the decrement at the press of the button,
\* and the flags change once, by the roll entry appended to the history.
C11_SacredFrame ==
    [][\A r \in Rolls :
          SacredStep(r) =>
              /\ system'.humanidade = system.humanidade
              /\ system'.bestialidade = system.bestialidade
              /\ system'.mortalidade = system.mortalidade
              /\ system'.penalty = system.penalty
              /\ system'.hunt = system.hunt
              /\ system'.max = system.max
              /\ system'.current =
                    IF rolls[r].pc = "dialog"
                    THEN Num(system.current.n - 1) ELSE system.current
              /\ flags'.lastMortalityLevel = flags.lastMortalityLevel
              /\ IF rolls[r].pc = "flag" /\ rolls'[r].pc = "done"
                 THEN /\ Len(flags'.history) = Len(flags.history) + 1
                      /\ SubSeq(flags'.history, 1, Len(flags.history)) = flags.history
                      /\ flags'.history[Len(flags'.history)].type = "roll"
                      /\ flags'.history[Len(flags'.history)].skill = rolls[r].skill
                      /\ flags'.history[Len(flags'.history)].total = rolls[r].total
                 ELSE flags'.history = flags.history]_vars

\* C11 witness: a sacred roll started at bestialidade 6 with two points has
\* returned; the attributes are as before, one point is left and the last
\* entry of the history is the roll.
C11_Witness ==
    /\ Settled(1)
    /\ ~rolls[1].umbral
    /\ rolls[1].bestia = 6
    /\ rolls[1].before = Num(2)
    /\ system.bestialidade = 6
    /\ system.humanidade = 6
    /\ system.max = 7
    /\ system.current = Num(1)
    /\ flags.history # << >>
    /\ flags.history[Len(flags.history)].type = "roll"

-----------------------------------------------------------------------------
(* Dismissal and failures, under SpecFaults *)

\* The call r of rollSkill has returned to its caller
Returned(r) == rolls[r].pc \in {"idle", "done"}

\* C12: once the dialog of a call has been closed without a button, the call
\* completes: its promise is settled and the caller goes on.
C12_DismissCompletes ==
    \A r \in SoloRolls : (rolls[r].pc = "closed") ~> Returned(r)

\* C13: after a roll that started with current = c >= 1 has failed on a die
\* or on the chat, current is c - 1, and stays so in every later state.
C13_DecrementStays ==
    \A r \in Rolls :
        (/\ rolls[r].pc = "failed"
         /\ rolls[r].before.k = "int"
         /\ rolls[r].before.n >= 1) =>
            system.current = Num(rolls[r].before.n - 1)

\* C14: a pass of prepareDerivedData returns normally, with max, penalty and
\* hunt frequency recomputed, whichever of its collaborators fails.
C14_NeverFails ==
    AfterDeriver =>
        /\ last.warn # "Error"
        /\ system.max = system.bestialidade + 1
        /\ system.penalty = Penalty(system.mortalidade)
        /\ system.hunt = HuntFrequency(system.mortalidade)

-----------------------------------------------------------------------------
(* Several calls at once, under Spec *)

\* C15: every resolution step starts with current > 0: when a button of a
\* dialog is pressed, whatever other dialogs were opened and confirmed in
\* between, the pool holds at least one point.
C15_ResolvesWithPoint ==
    [][\A r \in Rolls :
          (rolls[r].pc = "dialog" /\ rolls'[r].pc = "d6") =>
              GreaterThan(system.current, 0)]_vars

\* C16: two umbral rolls that both started on a record with humanidade +
\* bestialidade = 12 and bestialidade = b, and have both returned, leave
\* bestialidade at min(11, b + 2) or above.
C16_NoLostIncrement ==
    \A r1, r2 \in Rolls :
        (/\ r1 # r2
         /\ rolls[r1].pc = "done" /\ rolls[r2].pc = "done"
         /\ rolls[r1].umbral /\ rolls[r2].umbral
         /\ rolls[r1].bestia = rolls[r2].bestia
         /\ rolls[r1].human + rolls[r1].bestia = 12
         /\ rolls[r1].bestia \in 0..11) =>
            system.bestialidade >= MathMin(11, rolls[r1].bestia + 2)

\* C17: the persisted history only grows at its end: every step leaves the
\* entries it held in place and in order.
C17_AppendOnly ==
    [][/\ Len(flags'.history) >= Len(flags.history)
       /\ SubSeq(flags'.history, 1, Len(flags.history)) = flags.history]_vars

-----------------------------------------------------------------------------
(* The resource pool under sheet edits and rolls, under SpecSheet *)

\* Every request has been applied and no roll is being resolved
SettledRecord == pending = << >> /\ \A r \in Rolls : ~InProgress(r)

\* C19: in every settled state max = bestialidade + 1 and current is a
\* number that is at most max; a roll whose umbral update has been applied
\* goes on with max = bestialidade + 1 already.
C19_MaxFollowsBestialidade ==
    /\ SettledRecord =>
          /\ system.max = system.bestialidade + 1
          /\ AtMost(system.current, system.max)
    /\ \A r \in Rolls :
          (rolls[r].umbral /\ rolls[r].pc \in {"d12", "flag", "done"}) =>
              system.max = system.bestialidade + 1

\* C19 witness: an umbral roll started at bestialidade 6 has returned on a
\* settled record: bestialidade is 7 and max is 8.
C19_Witness ==
    /\ SettledRecord
    /\ Settled(1)
    /\ rolls[1].umbral
    /\ rolls[1].bestia = 6
    /\ system.bestialidade = 7
    /\ system.max = 8
    /\ AtMost(system.current, 8)

\* C20: a pass of prepareDerivedData that finds current a number between 0
\* and the max it computes leaves current as it is, also when that max is
\* larger than the one before.
C20_NeverRaised ==
    [][(/\ last'.op \in {"apply", "prepare"}
        /\ system.current.k = "int"
        /\ system.current.n >= 0
        /\ system.current.n <= system'.max) =>
            system'.current = system.current]_vars

\* C20 witness: humanidade has been edited from 6 down to 2 on a record with
\* a full pool of 7; max has grown from 7 to 11 and current is still 7.
C20_Witness ==
    /\ last.op = "apply"
    /\ rolls[1].pc = "idle"
    /\ system.humanidade = 2
    /\ system.max = 11
    /\ system.current = Num(7)

-----------------------------------------------------------------------------
(* The total of a roll, under SpecTotal *)

\* C9: the total is d12 + rating + contribution + modifier, the contribution
\* being the d6 halved and rounded up for a sacred die and the d6 itself for
\* an umbral die, and an unset rating counting as 0.
C9_Total ==
    \A r \in Rolls :
        LET x == rolls[r]
            rating == IF x.skill \in DOMAIN skills THEN skills[x.skill].n ELSE 0
            half == CHOOSE c \in 0..6 : 2 * c \in {x.d6, x.d6 + 1}
            spent == IF x.umbral THEN x.d6 ELSE half
        IN  x.pc \in {"flag", "done"} =>
                /\ x.d6 \in 1..6
                /\ x.d12 \in 1..12
                /\ x.mod \in ModifierValues
                /\ x.total = Num(x.d12 + rating + spent + x.mod)

\* C9 witness: rating 3, sacred die with d6 = 5, d12 = 7 and modifier 0 have
\* returned 13.
C9_Witness ==
    /\ rolls[1].pc = "done"
    /\ rolls[1].skill = "atletismo"
    /\ ~rolls[1].umbral
    /\ rolls[1].d6 = 5
    /\ rolls[1].d12 = 7
    /\ rolls[1].mod = 0
    /\ rolls[1].total = Num(13)

\* C18: the roll entry appended to the history holds humanidade,
\* bestialidade and mortalidade as the record holds them when the entry is
\* appended; for an umbral roll, the values after the attribute update.
C18_SnapshotAtAppend ==
    [][\A r \in Rolls :
          (rolls[r].pc = "d12" /\ rolls'[r].pc = "flag") =>
              LET history == pending'[Len(pending')].history
                  entry == history[Len(history)]
              IN  /\ entry.type = "roll"
                  /\ entry.humanidade = system.humanidade
                  /\ entry.bestialidade = system.bestialidade
                  /\ entry.mortalidade = system.mortalidade]_vars

=============================================================================
